---- MODULE Spec2Model ----
(***************************************************************************)
(* Model of homeassistant/components/esphome/entry_data.py                 *)
(* (RuntimeEntryData): the state store with duplicate suppression, the     *)
(* callback registries and their unsubscribe handles, the removal fan-out, *)
(* the platform loader and the debounced storage.                          *)
(***************************************************************************)
EXTENDS Integers, Sequences, FiniteSets, TLC

\* ------------------------------------------------------------------ bounds

\* Number of distinct state payloads an entity can report.
NumValues == 2

Values == 0 .. (NumValues - 1)

\* Entity keys; 5 is the key of the spec's scenarios.
Keys == {5}

\* EntityState classes: the sensor class (force_update applies), the camera
\* class (never suppressed) and one ordinary class.
StateTypes == {"SensorState", "CameraState", "SwitchState"}

\* Consumer callbacks.
Callbacks == {"cb1", "cb2"}

\* The entity callback of a state subscription.
EntityCallbacks == {"entity_cb"}

Pairs == StateTypes \X Keys

\* EntityInfo classes with registered callbacks.
InfoTypes == {"SensorInfo", "BinarySensorInfo"}

InfoPairs == InfoTypes \X Keys

\* Registrations made on the list registries in one run.
MaxRegistrations == 2

\* Entities in one removal batch.
MaxBatch == 2

\* Writes to storage in one run.
MaxWrites == 3

\* The snapshots (store_data) a save request can build.
Snapshots == {"A", "B", "C"}

\* Concurrent async_update_static_infos calls in one run.
MaxCalls == 3

\* Infos in one batch of a topology update whose dispatch is observed.
MaxInfos == 2

\* Entries of the entity registry.
MaxEntries == 2

CallIds == 1 .. MaxCalls

\* EntityInfo classes that appear in the batches of async_update_static_infos.
BatchInfoTypes == {"SensorInfo", "TextSensorInfo", "BinarySensorInfo"}

\* static_infos of async_remove_entities: lists of (type, key), an entity
\* listed once.
Batches ==
    {b \in UNION {[1 .. n -> InfoPairs] : n \in 0 .. MaxBatch} :
        \A i, j \in DOMAIN b : i # j => b[i] # b[j]}

\* ------------------------------------------------------------------- state

VARIABLES
    state,                \* dict[type, dict[key, EntityState]]
    stale_state,          \* set[(type, key)]
    info,                 \* info[SensorInfo]: key -> [force_update]
    state_subscriptions,  \* dict[(type, key), callback]
    stateHandles,         \* _unsubscribe closures handed out, by (type, key)
    lastUpdate            \* what the most recent call on the state store did

VARIABLES
    entity_info_callbacks,              \* dict[type, list[callback]]
    entity_info_key_remove_callbacks,   \* dict[(type, key), list[callback]]
    entity_info_key_updated_callbacks,  \* dict[(type, key), list[callback]]
    assist_pipeline_update_callbacks,   \* list[callback]
    assist_pipeline_state,              \* bool
    handles,              \* _unsub closures handed out: <<registry, key, callback>>
    nRegistered,          \* registrations made on the list registries
    lastUnsub             \* what the most recent call of an _unsub closure did

varsState == <<state, stale_state, info, state_subscriptions, stateHandles,
               lastUpdate>>

varsSubs == <<entity_info_callbacks, entity_info_key_remove_callbacks,
              entity_info_key_updated_callbacks, assist_pipeline_update_callbacks,
              assist_pipeline_state, handles, nRegistered, lastUnsub>>

\* The registries other than entity_info_callbacks.
varsSubsOther == <<entity_info_key_remove_callbacks,
                   entity_info_key_updated_callbacks,
                   assist_pipeline_update_callbacks, assist_pipeline_state,
                   handles, nRegistered, lastUnsub>>

VARIABLES
    rm_pc,                \* where the async_remove_entities call stands
    rm_tasks,             \* the removal coroutines handed to asyncio.gather
    rm_batch              \* static_infos of the most recent async_remove_entities

VARIABLES
    loaded_platforms,     \* set[Platform]
    platform_load_lock,   \* asyncio.Lock: its holder and its queue of waiters
    calls,                \* the async_update_static_infos calls and their position
    forwarded,            \* per platform, the forwards for setup made so far
    failedForwards,       \* per platform, the forwards that raised
    ent_reg,              \* the entity registry: the entries of this integration
    lastStatic            \* what the most recent step of a topology update did

VARIABLES
    _storage_contents,    \* StoreData | None: the snapshot last written or loaded
    _pending_storage,     \* the _memorized_storage closure, by the snapshot it holds
    store_delayed,        \* the data function of the Store's delayed write
    written,              \* the snapshots written to storage, in order
    lastReq,              \* the snapshot of the most recent save request
    lastStore             \* what the most recent storage operation did

varsRemove == <<rm_pc, rm_tasks, rm_batch>>

varsPlat == <<loaded_platforms, platform_load_lock, calls, forwarded,
              failedForwards, ent_reg, lastStatic>>

varsStore == <<_storage_contents, _pending_storage, store_delayed, written,
               lastReq, lastStore>>

VARIABLES
    device_info,          \* DeviceInfo | None
    api_version           \* APIVersion

varsDevice == <<device_info, api_version>>

VARIABLES
    lastNotify            \* what the most recent notification pass did

varsNotify == <<lastNotify>>

VARIABLES
    AZD_MODE,             \* the OperationMode the coordinator reports for the zone
    AZD_MASTER,           \* whether the zone is the master of its system
    lastHvac              \* what the most recent async_set_hvac_mode call did

varsClimate == <<AZD_MODE, AZD_MASTER, lastHvac>>

\* Everything outside the state store and the callback registries.
varsRest == <<varsRemove, varsPlat, varsStore, varsDevice, varsNotify, varsClimate>>

vars == <<varsState, varsSubs, varsRest>>

\* The empty dict.
EmptyDict == [x \in {} |-> 0]

\* d[k] = v on a dict d.
DictPut(d, k, v) == [x \in DOMAIN d \cup {k} |-> IF x = k THEN v ELSE d[x]]

\* d.pop(k) on a dict d holding k.
DictPop(d, k) == [x \in DOMAIN d \ {k} |-> d[x]]

NoCall ==
    [op |-> "none", type |-> "", key |-> 0, value |-> 0, outcome |-> "",
     dispatched |-> FALSE, cbRaised |-> FALSE, wasStale |-> FALSE,
     wasEqual |-> FALSE, forced |-> FALSE, repeat |-> FALSE,
     prevOutcome |-> "", prevDispatched |-> FALSE, prevWasStale |-> FALSE,
     prevWasEqual |-> FALSE]

OtherCall(name) == [NoCall EXCEPT !.op = name]

NoUnsub == [op |-> "none", registry |-> "", raised |-> FALSE]

InitState ==
    /\ state = EmptyDict
    /\ stale_state = {}
    /\ info = EmptyDict
    /\ state_subscriptions = EmptyDict
    /\ stateHandles = {}
    /\ lastUpdate = NoCall

\* The platform setup of the integration creates the per-type dict of a state
\* class (state.setdefault(state_type, {})) before it subscribes entities.
EnsureStateMap(t) ==
    /\ t \notin DOMAIN state
    /\ state' = DictPut(state, t, EmptyDict)
    /\ lastUpdate' = OtherCall("other")
    /\ UNCHANGED <<stale_state, info, state_subscriptions, stateHandles>>
    /\ UNCHANGED <<varsSubs, varsRest>>

\* A topology update stores the SensorInfo of a key, with its force_update flag.
SetSensorInfo(k, force) ==
    /\ info' = DictPut(info, k, [force_update |-> force])
    /\ info' # info
    /\ lastUpdate' = OtherCall("other")
    /\ UNCHANGED <<state, stale_state, state_subscriptions, stateHandles>>
    /\ UNCHANGED <<varsSubs, varsRest>>

\* Disconnect: every (type, key) with a stored state becomes stale.
MarkAllStale ==
    /\ stale_state' = {p \in Pairs : p[1] \in DOMAIN state /\ p[2] \in DOMAIN state[p[1]]}
    /\ lastUpdate' = OtherCall("stale")
    /\ UNCHANGED <<state, info, state_subscriptions, stateHandles>>
    /\ UNCHANGED <<varsSubs, varsRest>>

\* async_subscribe_state_update: the callback replaces any earlier one.
async_subscribe_state_update(t, k, cb) ==
    /\ state_subscriptions' = DictPut(state_subscriptions, <<t, k>>, cb)
    /\ stateHandles' = stateHandles \cup {<<t, k>>}
    /\ lastUpdate' = OtherCall("other")
    /\ UNCHANGED <<state, stale_state, info>>
    /\ UNCHANGED <<entity_info_callbacks, entity_info_key_remove_callbacks,
                   entity_info_key_updated_callbacks,
                   assist_pipeline_update_callbacks, assist_pipeline_state,
                   handles, nRegistered>>
    /\ lastUnsub' = NoUnsub
    /\ UNCHANGED varsRest

\* (cast(SensorInfo, entity_info)).force_update of the key's SensorInfo, if any.
ForceUpdate(t, k) ==
    /\ t = "SensorState"
    /\ k \in DOMAIN info
    /\ info[k].force_update

\* Mutant: the stored state is compared by identity; a newly decoded message
\* is never the stored object.
IsDuplicate_ByIdentity(t, k, v) ==
    /\ k \in DOMAIN state[t]
    /\ FALSE
    /\ <<t, k>> \notin stale_state

\* Mutant: the stale set is not consulted.
IsDuplicate_IgnoresStale(t, k, v) ==
    /\ k \in DOMAIN state[t]
    /\ state[t][k] = v
    /\ t # "CameraState"
    /\ ~ForceUpdate(t, k)

\* Mutant: the force_update flag of the SensorInfo is not consulted.
IsDuplicate_IgnoresForce(t, k, v) ==
    /\ k \in DOMAIN state[t]
    /\ state[t][k] = v
    /\ <<t, k>> \notin stale_state
    /\ t # "CameraState"

\* The condition of the early return: a duplicate that nothing forces through.
IsDuplicate(t, k, v) ==
    /\ k \in DOMAIN state[t]
    /\ state[t][k] = v
    /\ <<t, k>> \notin stale_state
    /\ t # "CameraState"
    /\ ~ForceUpdate(t, k)

\* The call about to be made repeats the previous call on the store: the same
\* class, key and payload, and no other operation in between.
IsRepeat(t, k, v) ==
    /\ lastUpdate.op = "update"
    /\ lastUpdate.type = t
    /\ lastUpdate.key = k
    /\ lastUpdate.value = v

UpdateRecord(t, k, v, outcome, dispatched, cbRaised) ==
    [op |-> "update", type |-> t, key |-> k, value |-> v, outcome |-> outcome,
     dispatched |-> dispatched, cbRaised |-> cbRaised,
     wasStale |-> <<t, k>> \in stale_state,
     wasEqual |-> t \in DOMAIN state /\ k \in DOMAIN state[t] /\ state[t][k] = v,
     forced |-> ForceUpdate(t, k),
     repeat |-> IsRepeat(t, k, v),
     prevOutcome |-> IF IsRepeat(t, k, v) THEN lastUpdate.outcome ELSE "",
     prevDispatched |-> IsRepeat(t, k, v) /\ lastUpdate.dispatched,
     prevWasStale |-> IsRepeat(t, k, v) /\ lastUpdate.wasStale,
     prevWasEqual |-> IsRepeat(t, k, v) /\ lastUpdate.wasEqual]

\* Mutant: the exception of the callback leaves async_update_state.
DispatchOutcome_Propagates(cbRaises) ==
    IF cbRaises THEN "CallbackError" ELSE "applied"

\* How the call ends once the subscription was called: try/except Exception
\* logs what the callback raises and the call returns normally.
DispatchOutcome(cbRaises) == "applied"

\* Mutant: the stale marks of all keys are dropped.
DiscardStale_All(stale, t, k) == {}

\* stale_state.discard(subscription_key)
DiscardStale(stale, t, k) == stale \ {<<t, k>>}

\* async_update_state(state) with type(state) = t, state.key = k and payload v;
\* cbRaises says whether the subscribed callback, if called, raises.
async_update_state(t, k, v, cbRaises) ==
    /\ UNCHANGED <<varsSubs, varsRest>>
    /\ IF t \notin DOMAIN state
       THEN \* self.state[state_type] raises KeyError
            /\ lastUpdate' = UpdateRecord(t, k, v, "KeyError", FALSE, FALSE)
            /\ UNCHANGED <<state, stale_state, info, state_subscriptions, stateHandles>>
       ELSE IF IsDuplicate(t, k, v)
       THEN /\ lastUpdate' = UpdateRecord(t, k, v, "suppressed", FALSE, FALSE)
            /\ UNCHANGED <<state, stale_state, info, state_subscriptions, stateHandles>>
       ELSE /\ stale_state' = DiscardStale(stale_state, t, k)
            /\ state' = [state EXCEPT ![t] = DictPut(@, k, v)]
            /\ IF <<t, k>> \in DOMAIN state_subscriptions
               THEN lastUpdate' = UpdateRecord(t, k, v, DispatchOutcome(cbRaises),
                                               TRUE, cbRaises)
               ELSE /\ ~cbRaises
                    /\ lastUpdate' = UpdateRecord(t, k, v, "applied", FALSE, FALSE)
            /\ UNCHANGED <<info, state_subscriptions, stateHandles>>

\* The _unsubscribe closure of async_subscribe_state_update.
state_unsubscribe(t, k) ==
    /\ <<t, k>> \in stateHandles
    /\ IF <<t, k>> \in DOMAIN state_subscriptions
       THEN state_subscriptions' = DictPop(state_subscriptions, <<t, k>>)
       ELSE \* dict.pop of a missing key raises KeyError
            UNCHANGED state_subscriptions
    /\ lastUpdate' = OtherCall("other")
    /\ UNCHANGED <<state, stale_state, info, stateHandles>>
    /\ UNCHANGED <<entity_info_callbacks, entity_info_key_remove_callbacks,
                   entity_info_key_updated_callbacks,
                   assist_pipeline_update_callbacks, assist_pipeline_state,
                   handles, nRegistered>>
    /\ lastUnsub' = [op |-> "unsub", registry |-> "state",
                     raised |-> <<t, k>> \notin DOMAIN state_subscriptions]
    /\ UNCHANGED varsRest

NextState ==
    \/ \E t \in StateTypes : EnsureStateMap(t)
    \/ \E k \in Keys, f \in BOOLEAN : SetSensorInfo(k, f)
    \/ MarkAllStale
    \/ \E t \in StateTypes, k \in Keys, cb \in EntityCallbacks :
          async_subscribe_state_update(t, k, cb)
    \/ \E t \in StateTypes, k \in Keys, v \in Values, r \in BOOLEAN :
          async_update_state(t, k, v, r)

\* ------------------------------------------------- callback registries

InitSubs ==
    /\ entity_info_callbacks = EmptyDict
    /\ entity_info_key_remove_callbacks = EmptyDict
    /\ entity_info_key_updated_callbacks = EmptyDict
    /\ assist_pipeline_update_callbacks = << >>
    /\ assist_pipeline_state = FALSE
    /\ handles = {}
    /\ nRegistered = 0
    /\ lastUnsub = NoUnsub

\* d.setdefault(k, []) followed by append(cb) on the list it returns.
SetDefaultAppend(d, k, cb) ==
    DictPut(d, k, Append(IF k \in DOMAIN d THEN d[k] ELSE << >>, cb))

InList(l, cb) == \E i \in 1 .. Len(l) : l[i] = cb

\* list.remove(cb) on a list holding cb: the first occurrence goes.
ListRemove(l, cb) ==
    LET i == CHOOSE j \in 1 .. Len(l) :
                 l[j] = cb /\ \A h \in 1 .. (j - 1) : l[h] # cb
    IN  [j \in 1 .. (Len(l) - 1) |-> IF j < i THEN l[j] ELSE l[j + 1]]

\* What calling an _unsub closure leaves behind: list.remove raises
\* ValueError when the callback is no longer in the list.
UnsubRecord(registry, l, cb) ==
    [op |-> "unsub", registry |-> registry, raised |-> ~InList(l, cb)]

\* async_register_static_info_callback(entity_info_type, callback_)
async_register_static_info_callback(t, cb) ==
    /\ nRegistered < MaxRegistrations
    /\ entity_info_callbacks' = SetDefaultAppend(entity_info_callbacks, t, cb)
    /\ handles' = handles \cup {<<"static_info", t, cb>>}
    /\ nRegistered' = nRegistered + 1
    /\ lastUnsub' = NoUnsub
    /\ UNCHANGED <<entity_info_key_remove_callbacks,
                   entity_info_key_updated_callbacks,
                   assist_pipeline_update_callbacks, assist_pipeline_state>>
    /\ UNCHANGED <<varsState, varsRest>>

\* The _unsub closure of async_register_static_info_callback.
static_info_unsub(t, cb) ==
    /\ <<"static_info", t, cb>> \in handles
    /\ lastUnsub' = UnsubRecord("static_info", entity_info_callbacks[t], cb)
    /\ IF InList(entity_info_callbacks[t], cb)
       THEN entity_info_callbacks' =
                [entity_info_callbacks EXCEPT ![t] = ListRemove(@, cb)]
       ELSE UNCHANGED entity_info_callbacks
    /\ UNCHANGED <<entity_info_key_remove_callbacks,
                   entity_info_key_updated_callbacks,
                   assist_pipeline_update_callbacks, assist_pipeline_state,
                   handles, nRegistered>>
    /\ UNCHANGED <<varsState, varsRest>>

\* async_register_key_static_info_remove_callback(static_info, callback_)
async_register_key_static_info_remove_callback(t, k, cb) ==
    /\ nRegistered < MaxRegistrations
    /\ entity_info_key_remove_callbacks' =
           SetDefaultAppend(entity_info_key_remove_callbacks, <<t, k>>, cb)
    /\ handles' = handles \cup {<<"key_remove", <<t, k>>, cb>>}
    /\ nRegistered' = nRegistered + 1
    /\ lastUnsub' = NoUnsub
    /\ UNCHANGED <<entity_info_callbacks, entity_info_key_updated_callbacks,
                   assist_pipeline_update_callbacks, assist_pipeline_state>>
    /\ UNCHANGED <<varsState, varsRest>>

\* The _unsub closure of async_register_key_static_info_remove_callback.
key_remove_unsub(t, k, cb) ==
    /\ <<"key_remove", <<t, k>>, cb>> \in handles
    /\ lastUnsub' = UnsubRecord("key_remove",
                                entity_info_key_remove_callbacks[<<t, k>>], cb)
    /\ IF InList(entity_info_key_remove_callbacks[<<t, k>>], cb)
       THEN entity_info_key_remove_callbacks' =
                [entity_info_key_remove_callbacks EXCEPT ![<<t, k>>] = ListRemove(@, cb)]
       ELSE UNCHANGED entity_info_key_remove_callbacks
    /\ UNCHANGED <<entity_info_callbacks, entity_info_key_updated_callbacks,
                   assist_pipeline_update_callbacks, assist_pipeline_state,
                   handles, nRegistered>>
    /\ UNCHANGED <<varsState, varsRest>>

\* async_register_key_static_info_updated_callback(static_info, callback_)
async_register_key_static_info_updated_callback(t, k, cb) ==
    /\ nRegistered < MaxRegistrations
    /\ entity_info_key_updated_callbacks' =
           SetDefaultAppend(entity_info_key_updated_callbacks, <<t, k>>, cb)
    /\ handles' = handles \cup {<<"key_updated", <<t, k>>, cb>>}
    /\ nRegistered' = nRegistered + 1
    /\ lastUnsub' = NoUnsub
    /\ UNCHANGED <<entity_info_callbacks, entity_info_key_remove_callbacks,
                   assist_pipeline_update_callbacks, assist_pipeline_state>>
    /\ UNCHANGED <<varsState, varsRest>>

\* The _unsub closure of async_register_key_static_info_updated_callback.
key_updated_unsub(t, k, cb) ==
    /\ <<"key_updated", <<t, k>>, cb>> \in handles
    /\ lastUnsub' = UnsubRecord("key_updated",
                                entity_info_key_updated_callbacks[<<t, k>>], cb)
    /\ IF InList(entity_info_key_updated_callbacks[<<t, k>>], cb)
       THEN entity_info_key_updated_callbacks' =
                [entity_info_key_updated_callbacks EXCEPT ![<<t, k>>] = ListRemove(@, cb)]
       ELSE UNCHANGED entity_info_key_updated_callbacks
    /\ UNCHANGED <<entity_info_callbacks, entity_info_key_remove_callbacks,
                   assist_pipeline_update_callbacks, assist_pipeline_state,
                   handles, nRegistered>>
    /\ UNCHANGED <<varsState, varsRest>>

\* async_subscribe_assist_pipeline_update(update_callback)
async_subscribe_assist_pipeline_update(cb) ==
    /\ nRegistered < MaxRegistrations
    /\ assist_pipeline_update_callbacks' = Append(assist_pipeline_update_callbacks, cb)
    /\ handles' = handles \cup {<<"assist", "", cb>>}
    /\ nRegistered' = nRegistered + 1
    /\ lastUnsub' = NoUnsub
    /\ UNCHANGED <<entity_info_callbacks, entity_info_key_remove_callbacks,
                   entity_info_key_updated_callbacks, assist_pipeline_state>>
    /\ UNCHANGED <<varsState, varsRest>>

\* The _unsubscribe closure of async_subscribe_assist_pipeline_update.
assist_pipeline_unsubscribe(cb) ==
    /\ <<"assist", "", cb>> \in handles
    /\ lastUnsub' = UnsubRecord("assist", assist_pipeline_update_callbacks, cb)
    /\ IF InList(assist_pipeline_update_callbacks, cb)
       THEN assist_pipeline_update_callbacks' =
                ListRemove(assist_pipeline_update_callbacks, cb)
       ELSE UNCHANGED assist_pipeline_update_callbacks
    /\ UNCHANGED <<entity_info_callbacks, entity_info_key_remove_callbacks,
                   entity_info_key_updated_callbacks, assist_pipeline_state,
                   handles, nRegistered>>
    /\ UNCHANGED <<varsState, varsRest>>

\* What a consumer callback does when it is called: it returns, it raises, or
\* it calls its own unsubscribe handle and returns.
CallbackBehaviours == [Callbacks -> {"return", "raise", "unsubscribe"}]

NoNotify ==
    [op |-> "none", value |-> FALSE, unchanged |-> FALSE, before |-> << >>,
     after |-> << >>, invoked |-> << >>, raised |-> FALSE]

InitNotify == lastNotify = NoNotify

RECURSIVE NotifyFrom(_, _, _, _)
\* "for callback_ in callbacks: callback_(...)" from position i of the list l:
\* the iterator reads l[i] of the list as it is now and moves on by one, so a
\* callback that removes itself shifts the rest of the list under the
\* iterator; an exception of a callback ends the loop and leaves the caller.
NotifyFrom(l, i, beh, invoked) ==
    IF i > Len(l)
    THEN [list |-> l, invoked |-> invoked, raised |-> FALSE]
    ELSE IF beh[l[i]] = "raise"
    THEN [list |-> l, invoked |-> Append(invoked, l[i]), raised |-> TRUE]
    ELSE IF beh[l[i]] = "unsubscribe"
    THEN NotifyFrom(ListRemove(l, l[i]), i + 1, beh, Append(invoked, l[i]))
    ELSE NotifyFrom(l, i + 1, beh, Append(invoked, l[i]))

\* One pass over a list of callbacks.
NotificationPass(l, beh) == NotifyFrom(l, 1, beh, << >>)

\* async_set_assist_pipeline_state(state): the flag is stored, then the
\* subscribed callbacks are called in list order; beh says what each does.
async_set_assist_pipeline_state(state_, beh) ==
    /\ \A cb \in Callbacks :
          ~InList(assist_pipeline_update_callbacks, cb) => beh[cb] = "return"
    /\ assist_pipeline_state' = state_
    /\ LET pass == NotificationPass(assist_pipeline_update_callbacks, beh)
       IN  /\ assist_pipeline_update_callbacks' = pass.list
           /\ lastNotify' =
                 [op |-> "assist", value |-> state_,
                  unchanged |-> state_ = assist_pipeline_state,
                  before |-> assist_pipeline_update_callbacks,
                  after |-> pass.list,
                  invoked |-> pass.invoked, raised |-> pass.raised]
    /\ UNCHANGED <<entity_info_callbacks, entity_info_key_remove_callbacks,
                   entity_info_key_updated_callbacks, handles, nRegistered,
                   lastUnsub>>
    /\ UNCHANGED <<varsState, varsRemove, varsPlat, varsStore, varsDevice, varsClimate>>

\* The assist pipeline flag, its subscribers and its setter.
NextNotify ==
    \/ \E cb \in Callbacks : async_subscribe_assist_pipeline_update(cb)
    \/ \E cb \in Callbacks : assist_pipeline_unsubscribe(cb)
    \/ \E state_ \in BOOLEAN, beh \in CallbackBehaviours :
          async_set_assist_pipeline_state(state_, beh)

NextSubs ==
    \/ \E t \in InfoTypes, cb \in Callbacks :
          async_register_static_info_callback(t, cb)
    \/ \E t \in InfoTypes, cb \in Callbacks : static_info_unsub(t, cb)
    \/ \E t \in InfoTypes, k \in Keys, cb \in Callbacks :
          async_register_key_static_info_remove_callback(t, k, cb)
    \/ \E t \in InfoTypes, k \in Keys, cb \in Callbacks : key_remove_unsub(t, k, cb)
    \/ \E t \in InfoTypes, k \in Keys, cb \in Callbacks :
          async_register_key_static_info_updated_callback(t, k, cb)
    \/ \E t \in InfoTypes, k \in Keys, cb \in Callbacks : key_updated_unsub(t, k, cb)
    \/ \E cb \in Callbacks : async_subscribe_assist_pipeline_update(cb)
    \/ \E cb \in Callbacks : assist_pipeline_unsubscribe(cb)
    \/ \E t \in StateTypes, k \in Keys, cb \in EntityCallbacks :
          async_subscribe_state_update(t, k, cb)
    \/ \E t \in StateTypes, k \in Keys : state_unsubscribe(t, k)

\* ------------------------------------------------------ removal fan-out

InitRemove ==
    /\ rm_pc = "idle"
    /\ rm_tasks = << >>
    /\ rm_batch = << >>

RECURSIVE RemovalCallbacks_StopAtMissing(_, _)
\* Mutant: the loop ends at the first static_info without a callback.
RemovalCallbacks_StopAtMissing(d, batch) ==
    IF batch = << >> \/ Head(batch) \notin DOMAIN d \/ d[Head(batch)] = << >>
    THEN << >>
    ELSE [i \in 1 .. Len(d[Head(batch)]) |->
             [key |-> Head(batch), cb |-> d[Head(batch)][i], st |-> "pending"]]
         \o RemovalCallbacks_StopAtMissing(d, Tail(batch))

RECURSIVE RemovalCallbacks(_, _)
\* The loop of async_remove_entities: for each static_info in turn, one
\* coroutine per callback registered for its (type, key); a key with no list,
\* or an empty one, adds nothing.
RemovalCallbacks(d, batch) ==
    IF batch = << >>
    THEN << >>
    ELSE LET callback_key == Head(batch)
             key_callbacks == IF callback_key \in DOMAIN d THEN d[callback_key] ELSE << >>
         IN  [i \in 1 .. Len(key_callbacks) |->
                 [key |-> callback_key, cb |-> key_callbacks[i], st |-> "pending"]]
             \o RemovalCallbacks(d, Tail(batch))

Finished(task) == task.st \in {"done", "failed"}

AllFinished == \A i \in 1 .. Len(rm_tasks) : Finished(rm_tasks[i])

\* async_remove_entities(static_infos) up to its await: with no callback it
\* returns at once, else the coroutines go to asyncio.gather.
async_remove_entities(batch) ==
    /\ rm_pc # "gathering"
    /\ AllFinished
    /\ LET callbacks == RemovalCallbacks(entity_info_key_remove_callbacks, batch)
       IN  /\ rm_tasks' = callbacks
           /\ rm_pc' = IF callbacks = << >> THEN "returned" ELSE "gathering"
    /\ rm_batch' = batch
    /\ UNCHANGED <<varsState, varsSubs, varsPlat, varsStore, varsDevice,
                   varsNotify, varsClimate>>

\* One removal coroutine runs to its next await ("running"), to its end
\* ("done") or to an exception ("failed").
RemovalCallbackRuns(i, next) ==
    /\ i \in 1 .. Len(rm_tasks)
    /\ ~Finished(rm_tasks[i])
    /\ next # rm_tasks[i].st
    /\ rm_tasks' = [rm_tasks EXCEPT ![i].st = next]
    /\ UNCHANGED <<rm_pc, rm_batch>>
    /\ UNCHANGED <<varsState, varsSubs, varsPlat, varsStore, varsDevice,
                   varsNotify, varsClimate>>

\* await asyncio.gather(*callbacks): the first exception of a coroutine is
\* raised to the awaiting call at once, the other coroutines keep running;
\* without an exception the call resumes when all are done.
GatherOutcome ==
    IF \E i \in 1 .. Len(rm_tasks) : rm_tasks[i].st = "failed"
    THEN "raised"
    ELSE IF AllFinished THEN "returned" ELSE "gathering"

\* The awaiting async_remove_entities call resumes.
GatherCompletes ==
    /\ rm_pc = "gathering"
    /\ GatherOutcome # "gathering"
    /\ rm_pc' = GatherOutcome
    /\ UNCHANGED <<rm_tasks, rm_batch>>
    /\ UNCHANGED <<varsState, varsSubs, varsPlat, varsStore, varsDevice,
                   varsNotify, varsClimate>>

NextRemove ==
    \/ \E t \in InfoTypes, k \in Keys, cb \in Callbacks :
          async_register_key_static_info_remove_callback(t, k, cb)
    \/ \E t \in InfoTypes, k \in Keys, cb \in Callbacks : key_remove_unsub(t, k, cb)
    \/ \E batch \in Batches : async_remove_entities(batch)
    \/ \E i \in 1 .. (MaxBatch * MaxRegistrations), next \in {"running", "done", "failed"} :
          RemovalCallbackRuns(i, next)
    \/ GatherCompletes

\* ------------------------------------------------------------ device info

\* device_info is None.
NoDeviceInfo ==
    [present |-> FALSE, name |-> "", mac_address |-> "",
     voice_assistant_version |-> 0]

\* The DeviceInfo objects of the device: without and with a voice assistant.
DeviceInfos ==
    {[present |-> TRUE, name |-> "n", mac_address |-> "m",
      voice_assistant_version |-> v] : v \in {0, 1}}

\* DeviceInfo.from_dict of the stored form <<name, mac_address, version>>.
DeviceInfoFromDict(d) ==
    [present |-> TRUE, name |-> d[1], mac_address |-> d[2],
     voice_assistant_version |-> d[3]]

\* APIVersion(): the default of the field, and APIVersion.from_dict({}).
DefaultAPIVersion == "0.0"

InitDevice ==
    /\ device_info = NoDeviceInfo
    /\ api_version = DefaultAPIVersion

\* The APIVersion the connected client reports.
ConnectedAPIVersion == "1.9"

\* On connect the integration assigns the DeviceInfo and the APIVersion the
\* device reported.
SetDeviceInfo(d) ==
    /\ d # device_info
    /\ device_info' = d
    /\ api_version' = ConnectedAPIVersion
    /\ UNCHANGED <<varsState, varsSubs, varsRemove, varsPlat, varsStore,
                   varsNotify, varsClimate>>

\* ------------------------------------------------------ platform loading

INFO_TYPE_TO_PLATFORM ==
    [AlarmControlPanelInfo |-> "alarm_control_panel",
     BinarySensorInfo |-> "binary_sensor",
     ButtonInfo |-> "button",
     CameraInfo |-> "camera",
     ClimateInfo |-> "climate",
     CoverInfo |-> "cover",
     FanInfo |-> "fan",
     LightInfo |-> "light",
     LockInfo |-> "lock",
     MediaPlayerInfo |-> "media_player",
     NumberInfo |-> "number",
     SelectInfo |-> "select",
     SensorInfo |-> "sensor",
     SwitchInfo |-> "switch",
     TextSensorInfo |-> "sensor"]

Platforms ==
    {INFO_TYPE_TO_PLATFORM[t] : t \in DOMAIN INFO_TYPE_TO_PLATFORM} \cup {"update"}

\* Strings are sequences of characters. In unique ids "M" is the formatted
\* MAC address of the device, "s", "t" and "b" are the ESPHome names of the
\* sensor, text sensor and binary sensor components, "x" and "y" are object
\* ids, and "n" is the device name.

\* unique_id.count("-")
CountDash(unique_id) ==
    Cardinality({i \in 1 .. Len(unique_id) : unique_id[i] = "-"})

\* unique_id.startswith(prefix)
StartsWith(unique_id, prefix) ==
    /\ Len(unique_id) >= Len(prefix)
    /\ SubSeq(unique_id, 1, Len(prefix)) = prefix

\* The position of the n-th "-" of a string that has one.
DashAt(unique_id, n) ==
    CHOOSE i \in 1 .. Len(unique_id) :
        /\ unique_id[i] = "-"
        /\ Cardinality({j \in 1 .. (i - 1) : unique_id[j] = "-"}) = n - 1

\* unique_id.split("-", 2) of a string with two dashes or more.
Split2(unique_id) ==
    <<SubSeq(unique_id, 1, DashAt(unique_id, 1) - 1),
      SubSeq(unique_id, DashAt(unique_id, 1) + 1, DashAt(unique_id, 2) - 1),
      SubSeq(unique_id, DashAt(unique_id, 2) + 1, Len(unique_id))>>

\* dr.format_mac(mac_address).upper() of the device's MAC address.
FormatMacUpper(mac_address) == IF mac_address = "m" THEN <<"M">> ELSE <<mac_address>>

\* new_unique_id_prefix = f"{dr.format_mac(self.device_info.mac_address).upper()}-"
NewUniqueIdPrefix(d) == FormatMacUpper(d.mac_address) \o <<"-">>

\* old_unique_id = f"{old_unique_id_prefix}{esphome_platform}{object_id}"
OldUniqueId(d, unique_id) ==
    <<d.name>> \o Split2(unique_id)[2] \o Split2(unique_id)[3]

\* An EntityInfo: its class, its key and its unique_id.
StaticInfo(t, k, unique_id) == [type |-> t, key |-> k, unique_id |-> unique_id]

\* ---- the entity registry of Home Assistant (entries of this integration)

\* ent_reg.async_get_entity_id(domain, DOMAIN, unique_id): the entity_id of
\* the entry, or 0 for None.
async_get_entity_id(reg, domain, unique_id) ==
    IF \E e \in reg : e.domain = domain /\ e.unique_id = unique_id
    THEN (CHOOSE e \in reg : e.domain = domain /\ e.unique_id = unique_id).entity_id
    ELSE 0

\* ent_reg.async_update_entity(entity_id, new_unique_id=unique_id): the entry
\* keeps its entity_id and takes the new unique id.
async_update_entity(reg, entity_id, new_unique_id) ==
    {IF e.entity_id = entity_id THEN [e EXCEPT !.unique_id = new_unique_id] ELSE e :
        e \in reg}

\* ---- unique id migration

\* possible_unique_id_migrations[unique_id] = info on the dict kept as a list
\* of items: a unique id already there keeps its place and takes the info.
ItemsPut(items, unique_id, info_) ==
    IF \E i \in 1 .. Len(items) : items[i].unique_id = unique_id
    THEN [i \in 1 .. Len(items) |->
             IF items[i].unique_id = unique_id
             THEN [unique_id |-> unique_id, info |-> info_] ELSE items[i]]
    ELSE Append(items, [unique_id |-> unique_id, info |-> info_])

\* The test of lines 326-331: the unique id is in the new format and no entry
\* of the info's platform has it.
IsMigrationCandidate(reg, d, info_) ==
    /\ d.present
    /\ StartsWith(info_.unique_id, NewUniqueIdPrefix(d))
    /\ CountDash(info_.unique_id) = 2
    /\ async_get_entity_id(reg, INFO_TYPE_TO_PLATFORM[info_.type], info_.unique_id) = 0

RECURSIVE PossibleMigrations(_, _, _, _)
\* possible_unique_id_migrations after the loop over infos, started with acc.
PossibleMigrations(reg, d, infos, acc) ==
    IF infos = << >>
    THEN acc
    ELSE PossibleMigrations(reg, d, Tail(infos),
             IF IsMigrationCandidate(reg, d, Head(infos))
             THEN ItemsPut(acc, Head(infos).unique_id, Head(infos))
             ELSE acc)

\* Mutant: no entry is looked up; every candidate is taken for a special case.
MigrateFrom_NoUpdate(reg, d, items, i, special) ==
    [reg |-> reg,
     special_cases |-> special \cup {items[j].unique_id : j \in i .. Len(items)},
     raised |-> FALSE]

RECURSIVE MigrateFrom_RaisesOnSpecial(_, _, _, _, _)
\* Mutant: a candidate without an entry under its legacy id is an error.
MigrateFrom_RaisesOnSpecial(reg, d, items, i, special) ==
    IF i > Len(items)
    THEN [reg |-> reg, special_cases |-> special, raised |-> FALSE]
    ELSE LET unique_id == items[i].unique_id
             platform == INFO_TYPE_TO_PLATFORM[items[i].info.type]
             old_entry == async_get_entity_id(reg, platform, OldUniqueId(d, unique_id))
         IN  IF old_entry = 0
             THEN [reg |-> reg, special_cases |-> special \cup {unique_id},
                   raised |-> TRUE]
             ELSE MigrateFrom_RaisesOnSpecial(
                      async_update_entity(reg, old_entry, unique_id),
                      d, items, i + 1, special)

RECURSIVE MigrateFrom(_, _, _, _, _)
\* The loop of _migrate_unique_ids_if_needed from candidate i on: an entry
\* found under the legacy id takes the new unique id, a candidate without
\* one goes to possible_special_cases. The registry refuses a unique id that
\* another entry of the platform has (ValueError).
MigrateFrom(reg, d, items, i, special) ==
    IF i > Len(items)
    THEN [reg |-> reg, special_cases |-> special, raised |-> FALSE]
    ELSE LET unique_id == items[i].unique_id
             platform == INFO_TYPE_TO_PLATFORM[items[i].info.type]
             old_entry == async_get_entity_id(reg, platform, OldUniqueId(d, unique_id))
         IN  IF old_entry = 0
             THEN MigrateFrom(reg, d, items, i + 1, special \cup {unique_id})
             ELSE IF async_get_entity_id(reg, platform, unique_id) # 0
             THEN [reg |-> reg, special_cases |-> special, raised |-> TRUE]
             ELSE MigrateFrom(async_update_entity(reg, old_entry, unique_id),
                              d, items, i + 1, special)

\* Lines 318-335: the candidates are collected and, if there are any,
\* _migrate_unique_ids_if_needed runs; it does nothing with the special cases
\* it has collected (the loop of lines 285-292 only reads the registry).
MigrateIfNeeded(reg, d, infos) ==
    MigrateFrom(reg, d, PossibleMigrations(reg, d, infos, << >>), 1, {})

\* ---- needed platforms

\* The EntityInfo classes of a batch.
TypesOf(infos) == {infos[i].type : i \in 1 .. Len(infos)}

\* Mutant: the voice assistant platforms are always asked for.
NeededPlatforms_AlwaysVoice(batchTypes, voice, dashboard) ==
    (IF dashboard THEN {"update"} ELSE {})
    \cup {"binary_sensor", "select"}
    \cup {INFO_TYPE_TO_PLATFORM[t] : t \in batchTypes}

\* needed_platforms of async_update_static_infos: UPDATE with a dashboard,
\* BINARY_SENSOR and SELECT with a voice assistant, and the platform of every
\* info of the batch.
NeededPlatforms(batchTypes, voice, dashboard) ==
    (IF dashboard THEN {"update"} ELSE {})
    \cup (IF voice THEN {"binary_sensor", "select"} ELSE {})
    \cup {INFO_TYPE_TO_PLATFORM[t] : t \in batchTypes}

\* self.device_info is not None and self.device_info.voice_assistant_version
HasVoiceAssistant(d) == d.present /\ d.voice_assistant_version # 0

\* ---- dispatch to the listeners

RECURSIVE InfosByType(_, _)
\* infos_by_type as the list of its items, started with groups: a class takes
\* its place when its first info comes and collects its infos in batch order.
InfosByType(infos, groups) ==
    IF infos = << >>
    THEN groups
    ELSE InfosByType(Tail(infos),
             IF \E g \in 1 .. Len(groups) : groups[g].type = Head(infos).type
             THEN [g \in 1 .. Len(groups) |->
                      IF groups[g].type = Head(infos).type
                      THEN [groups[g] EXCEPT !.entity_infos = Append(@, Head(infos))]
                      ELSE groups[g]]
             ELSE Append(groups, [type |-> Head(infos).type,
                                  entity_infos |-> <<Head(infos)>>]))

RECURSIVE DispatchFrom(_, _, _, _, _)
\* The loop of lines 349-352 from group g on: the callbacks registered for
\* the class of the group, if any, are called in list order with the infos
\* of the group; an exception of a callback ends the loop.
DispatchFrom(groups, g, cbs, beh, delivered) ==
    IF g > Len(groups)
    THEN [callbacks |-> cbs, delivered |-> delivered, raised |-> FALSE]
    ELSE LET type_ == groups[g].type
         IN  IF type_ \notin DOMAIN cbs \/ cbs[type_] = << >>
             THEN DispatchFrom(groups, g + 1, cbs, beh, delivered)
             ELSE LET pass == NotificationPass(cbs[type_], beh)
                      calls_ == [i \in 1 .. Len(pass.invoked) |->
                                    [callback |-> pass.invoked[i], type |-> type_,
                                     entity_infos |-> groups[g].entity_infos]]
                      after == [cbs EXCEPT ![type_] = pass.list]
                  IN  IF pass.raised
                      THEN [callbacks |-> after, delivered |-> delivered \o calls_,
                            raised |-> TRUE]
                      ELSE DispatchFrom(groups, g + 1, after, beh, delivered \o calls_)

\* Lines 339-355: the per-class callbacks, then the dispatcher signal with the
\* whole batch, which an exception of a callback leaves out.
Dispatch(cbs, infos, beh) ==
    LET d == DispatchFrom(InfosByType(infos, << >>), 1, cbs, beh, << >>)
    IN  [callbacks |-> d.callbacks, delivered |-> d.delivered, raised |-> d.raised,
         aggregate |-> IF d.raised THEN << >> ELSE <<infos>>]

\* The callbacks that a dispatch of the batch can call.
Listening(cbs, infos) ==
    {cb \in Callbacks : \E t \in TypesOf(infos) \cap DOMAIN cbs : InList(cbs[t], cb)}

\* Only a callback that is called has a behaviour to choose.
BehavesWhenCalled(beh, called) ==
    \A cb \in Callbacks \ called : beh[cb] = "return"

\* ---- the calls

NewCall ==
    [pc |-> "new", platforms |-> {}, needed |-> {}, infos |-> << >>,
     waited |-> FALSE, skipped |-> FALSE]

\* What the most recent step of an async_update_static_infos call did.
NoStatic ==
    [op |-> "none", call |-> 0, types |-> {}, voice |-> FALSE, dashboard |-> FALSE,
     requested |-> {}, special_cases |-> {}, migrated |-> {}, dispatched |-> FALSE,
     infos |-> << >>, callbacks_before |-> EmptyDict, delivered |-> << >>,
     aggregate |-> << >>, raised |-> FALSE]

\* A counter per platform, kept for the platforms counted so far.
Count(f, p) == IF p \in DOMAIN f THEN f[p] ELSE 0

CountAll(f, ps) ==
    [p \in DOMAIN f \cup ps |-> IF p \in ps THEN Count(f, p) + 1 ELSE f[p]]

InitPlat ==
    /\ loaded_platforms = {}
    /\ platform_load_lock = [holder |-> 0, waiters |-> << >>]
    /\ calls = [c \in CallIds |-> NewCall]
    /\ forwarded = EmptyDict
    /\ failedForwards = EmptyDict
    /\ ent_reg = {}
    /\ lastStatic = NoStatic

\* Home Assistant registers an entity of this integration: a new entry with
\* the next entity_id.
RegistryAdd(domain, unique_id) ==
    /\ Cardinality(ent_reg) < MaxEntries
    /\ async_get_entity_id(ent_reg, domain, unique_id) = 0
    /\ ent_reg' = ent_reg \cup {[entity_id |-> Cardinality(ent_reg) + 1,
                                 domain |-> domain, unique_id |-> unique_id]}
    /\ UNCHANGED <<loaded_platforms, platform_load_lock, calls, forwarded,
                   failedForwards, lastStatic>>
    /\ UNCHANGED <<varsState, varsSubs, varsRemove, varsStore, varsDevice,
                   varsNotify, varsClimate>>

\* Mutant: the lock is taken without regard to its holder.
CanAcquire_Unlocked == TRUE

\* asyncio.Lock.acquire takes the lock at once when it is free and nobody
\* waits for it; otherwise the caller queues.
CanAcquire ==
    /\ platform_load_lock.holder = 0
    /\ platform_load_lock.waiters = << >>

\* needed = platforms - self.loaded_platforms
StillNeeded(platforms) == platforms \ loaded_platforms

\* The end of a call whose platforms are loaded: the dispatch of lines
\* 339-355; beh says what each callback does when it is called.
FinishCall(c, infos, waited, skipped, beh, rec) ==
    LET d == Dispatch(entity_info_callbacks, infos, beh)
    IN  /\ entity_info_callbacks' = d.callbacks
        /\ calls' = [calls EXCEPT ![c] =
               [NewCall EXCEPT !.pc = IF d.raised THEN "raised" ELSE "done",
                               !.waited = waited, !.skipped = skipped]]
        /\ lastStatic' =
               [rec EXCEPT !.dispatched = TRUE, !.infos = infos,
                           !.callbacks_before = entity_info_callbacks,
                           !.delivered = d.delivered, !.aggregate = d.aggregate,
                           !.raised = d.raised]

\* _ensure_platforms_loaded from the point where call c holds the lock, with
\* `waiters` the queue left behind it: the platforms not yet loaded are
\* forwarded and the call suspends in the forward; with nothing to load the
\* lock is released at once and the call runs to its end.
EnsureLoadedHoldingLock(c, platforms, waiters, waited, infos, beh, rec) ==
    LET needed == StillNeeded(platforms)
        skipped == platforms \cap loaded_platforms # {}
    IN  IF needed # {}
        THEN /\ BehavesWhenCalled(beh, {})
             /\ platform_load_lock' = [holder |-> c, waiters |-> waiters]
             /\ calls' = [calls EXCEPT ![c] =
                    [pc |-> "forwarding", platforms |-> {}, needed |-> needed,
                     infos |-> infos, waited |-> waited, skipped |-> skipped]]
             /\ forwarded' = CountAll(forwarded, needed)
             /\ lastStatic' = rec
             /\ UNCHANGED entity_info_callbacks
        ELSE /\ platform_load_lock' = [holder |-> 0, waiters |-> waiters]
             /\ UNCHANGED forwarded
             /\ FinishCall(c, infos, waited, skipped, beh, rec)

\* async_update_static_infos(hass, entry, infos) up to its first suspension,
\* or to its end when it does not suspend; dashboard is what
\* async_get_dashboard finds. Calls are numbered in the order they are made.
async_update_static_infos(c, infos, dashboard, beh) ==
    /\ calls[c].pc = "new"
    /\ \A d \in CallIds : d < c => calls[d].pc # "new"
    /\ BehavesWhenCalled(beh, Listening(entity_info_callbacks, infos))
    /\ LET platforms == NeededPlatforms(TypesOf(infos), HasVoiceAssistant(device_info),
                                        dashboard)
           migration == MigrateIfNeeded(ent_reg, device_info, infos)
           rec == [NoStatic EXCEPT
                      !.op = "call", !.call = c, !.types = TypesOf(infos),
                      !.voice = HasVoiceAssistant(device_info),
                      !.dashboard = dashboard, !.requested = platforms,
                      !.infos = infos,
                      !.special_cases = migration.special_cases,
                      !.migrated = {e.entity_id : e \in ent_reg \ migration.reg}]
       IN  /\ ent_reg' = migration.reg
           /\ IF migration.raised
              THEN \* the registry's ValueError leaves the call
                   /\ BehavesWhenCalled(beh, {})
                   /\ calls' = [calls EXCEPT ![c].pc = "raised"]
                   /\ lastStatic' = [rec EXCEPT !.raised = TRUE]
                   /\ UNCHANGED <<platform_load_lock, forwarded, entity_info_callbacks>>
              ELSE IF CanAcquire
              THEN EnsureLoadedHoldingLock(c, platforms, platform_load_lock.waiters,
                                           FALSE, infos, beh, rec)
              ELSE /\ BehavesWhenCalled(beh, {})
                   /\ platform_load_lock' =
                          [platform_load_lock EXCEPT !.waiters = Append(@, c)]
                   /\ calls' = [calls EXCEPT ![c] =
                          [pc |-> "waiting", platforms |-> platforms, needed |-> {},
                           infos |-> infos, waited |-> TRUE, skipped |-> FALSE]]
                   /\ lastStatic' = rec
                   /\ UNCHANGED <<forwarded, entity_info_callbacks>>
    /\ UNCHANGED <<loaded_platforms, failedForwards>>
    /\ UNCHANGED varsSubsOther
    /\ UNCHANGED <<varsState, varsRemove, varsStore, varsDevice, varsNotify, varsClimate>>

\* Mutant: the released lock goes to the waiter that came last.
NextWaiter_Last(waiters) == waiters[Len(waiters)]

\* asyncio.Lock.release wakes the first waiter of the queue.
NextWaiter(waiters) == Head(waiters)

\* The woken waiter takes itself out of the queue.
WithoutWaiter(waiters, c) ==
    LET Other(w) == w # c
    IN  SelectSeq(waiters, Other)

\* The first waiter of the released lock resumes and takes it.
LockAcquired(c, beh) ==
    /\ calls[c].pc = "waiting"
    /\ BehavesWhenCalled(beh, Listening(entity_info_callbacks, calls[c].infos))
    /\ platform_load_lock.holder = 0
    /\ platform_load_lock.waiters # << >>
    /\ NextWaiter(platform_load_lock.waiters) = c
    /\ EnsureLoadedHoldingLock(c, calls[c].platforms,
                               WithoutWaiter(platform_load_lock.waiters, c), TRUE,
                               calls[c].infos, beh,
                               [NoStatic EXCEPT !.op = "resume", !.call = c])
    /\ UNCHANGED <<loaded_platforms, failedForwards, ent_reg>>
    /\ UNCHANGED varsSubsOther
    /\ UNCHANGED <<varsState, varsRemove, varsStore, varsDevice, varsNotify, varsClimate>>

\* async_forward_entry_setups returns: the platforms are recorded as loaded,
\* the lock is released and the call runs to its end.
ForwardReturns(c, beh) ==
    /\ calls[c].pc = "forwarding"
    /\ BehavesWhenCalled(beh, Listening(entity_info_callbacks, calls[c].infos))
    /\ loaded_platforms' = loaded_platforms \cup calls[c].needed
    /\ platform_load_lock' = [platform_load_lock EXCEPT !.holder = 0]
    /\ FinishCall(c, calls[c].infos, calls[c].waited, calls[c].skipped, beh,
                  [NoStatic EXCEPT !.op = "resume", !.call = c])
    /\ UNCHANGED <<forwarded, failedForwards, ent_reg>>
    /\ UNCHANGED varsSubsOther
    /\ UNCHANGED <<varsState, varsRemove, varsStore, varsDevice, varsNotify, varsClimate>>

\* Mutant: the platforms of a forward that raised are recorded as loaded.
ForwardRaises_MarksLoaded(c) ==
    /\ calls[c].pc = "forwarding"
    /\ loaded_platforms' = loaded_platforms \cup calls[c].needed
    /\ platform_load_lock' = [platform_load_lock EXCEPT !.holder = 0]
    /\ failedForwards' = CountAll(failedForwards, calls[c].needed)
    /\ calls' = [calls EXCEPT ![c] =
           [NewCall EXCEPT !.pc = "failed", !.waited = calls[c].waited,
                           !.skipped = calls[c].skipped]]
    /\ lastStatic' = [NoStatic EXCEPT !.op = "forward_failed", !.call = c]
    /\ UNCHANGED <<forwarded, ent_reg>>
    /\ UNCHANGED <<varsState, varsSubs, varsRemove, varsStore, varsDevice,
                   varsNotify, varsClimate>>

\* async_forward_entry_setups raises: "async with" releases the lock and the
\* exception leaves the call; loaded_platforms is not touched and nothing is
\* dispatched.
ForwardRaises(c) ==
    /\ calls[c].pc = "forwarding"
    /\ platform_load_lock' = [platform_load_lock EXCEPT !.holder = 0]
    /\ failedForwards' = CountAll(failedForwards, calls[c].needed)
    /\ calls' = [calls EXCEPT ![c] =
           [NewCall EXCEPT !.pc = "failed", !.waited = calls[c].waited,
                           !.skipped = calls[c].skipped]]
    /\ lastStatic' = [NoStatic EXCEPT !.op = "forward_failed", !.call = c]
    /\ UNCHANGED <<loaded_platforms, forwarded, ent_reg>>
    /\ UNCHANGED <<varsState, varsSubs, varsRemove, varsStore, varsDevice,
                   varsNotify, varsClimate>>

\* ---- batches

\* One info of each class of BatchInfoTypes, in a fixed order.
PlatInfos ==
    <<StaticInfo("SensorInfo", 5, <<"M", "-", "s", "-", "x">>),
      StaticInfo("TextSensorInfo", 6, <<"M", "-", "t", "-", "x">>),
      StaticInfo("BinarySensorInfo", 7, <<"M", "-", "b", "-", "y">>)>>

\* The infos of PlatInfos whose class is in types, in that order.
PlatBatch(types) ==
    LET OfTypes(info_) == info_.type \in types
    IN  SelectSeq(PlatInfos, OfTypes)

\* The batches of the calls that contend for the lock: one for every set of
\* classes.
PlatBatches == {PlatBatch(types) : types \in SUBSET BatchInfoTypes}

\* Lists without repetition of at most n elements of a set.
ListsOf(S, n) ==
    {l \in UNION {[1 .. m -> S] : m \in 0 .. n} :
        \A i, j \in DOMAIN l : i # j => l[i] # l[j]}

\* Two sensors and a binary sensor, with unique ids in the legacy format.
TopoInfos ==
    {StaticInfo("SensorInfo", 5, <<"n", "s", "x">>),
     StaticInfo("SensorInfo", 6, <<"n", "s", "y">>),
     StaticInfo("BinarySensorInfo", 5, <<"n", "b", "x">>)}

\* The batches of the calls whose dispatch is observed.
TopoBatches == ListsOf(TopoInfos, MaxInfos)

\* Infos for the migration: a sensor and a binary sensor in the new format, a
\* second sensor with the unique id of the first, a sensor in the legacy
\* format and one whose object id holds a dash.
MigrationInfos ==
    {StaticInfo("SensorInfo", 5, <<"M", "-", "s", "-", "x">>),
     StaticInfo("BinarySensorInfo", 6, <<"M", "-", "b", "-", "y">>),
     StaticInfo("SensorInfo", 7, <<"M", "-", "s", "-", "x">>),
     StaticInfo("SensorInfo", 8, <<"n", "s", "y">>),
     StaticInfo("SensorInfo", 9, <<"M", "-", "s", "-", "x", "-", "y">>)}

MigrationBatches == ListsOf(MigrationInfos, 2)

\* The entries Home Assistant can have registered: the sensor and the binary
\* sensor under their legacy ids, the sensor under its new id, an entity of
\* the binary_sensor platform with the sensor's legacy id and a special case.
RegistryEntries ==
    {<<"sensor", <<"n", "s", "x">>>>, <<"binary_sensor", <<"n", "b", "y">>>>,
     <<"sensor", <<"M", "-", "s", "-", "x">>>>,
     <<"binary_sensor", <<"n", "s", "x">>>>, <<"sensor", <<"M", "-", "u">>>>}

\* The calls of the runs in which one call follows the other.
SequentialCalls == {1, 2}

\* No call stands between its start and its end.
NoCallInProgress ==
    \A c \in CallIds : calls[c].pc \notin {"waiting", "forwarding"}

\* Calls that contend for the lock.
NextPlat ==
    \/ \E d \in DeviceInfos : calls[1].pc = "new" /\ SetDeviceInfo(d)
    \/ \E c \in CallIds, infos \in PlatBatches, beh \in CallbackBehaviours :
          async_update_static_infos(c, infos, FALSE, beh)
    \/ \E c \in CallIds, beh \in CallbackBehaviours : LockAcquired(c, beh)
    \/ \E c \in CallIds, beh \in CallbackBehaviours : ForwardReturns(c, beh)
    \/ \E c \in CallIds : ForwardRaises(c)

\* Calls made one after the other, with listeners for the classes.
NextTopo ==
    \/ \E t \in InfoTypes, cb \in Callbacks :
          async_register_static_info_callback(t, cb)
    \/ \E c \in SequentialCalls, infos \in TopoBatches, beh \in CallbackBehaviours :
          NoCallInProgress /\ async_update_static_infos(c, infos, FALSE, beh)
    \/ \E c \in CallIds, beh \in CallbackBehaviours : ForwardReturns(c, beh)
    \/ \E c \in CallIds : ForwardRaises(c)

\* Calls made one after the other on a registry filled beforehand.
NextMigrate ==
    \/ \E entry \in RegistryEntries :
          calls[1].pc = "new" /\ RegistryAdd(entry[1], entry[2])
    \/ \E d \in DeviceInfos : calls[1].pc = "new" /\ SetDeviceInfo(d)
    \/ \E c \in SequentialCalls, infos \in MigrationBatches,
          beh \in CallbackBehaviours :
          NoCallInProgress /\ async_update_static_infos(c, infos, FALSE, beh)
    \/ \E c \in CallIds, beh \in CallbackBehaviours : ForwardReturns(c, beh)
    \/ \E c \in CallIds : ForwardRaises(c)

\* Calls made one after the other, with and without a dashboard and a voice
\* assistant.
NextNeeded ==
    \/ \E d \in DeviceInfos : calls[1].pc = "new" /\ SetDeviceInfo(d)
    \/ \E c \in SequentialCalls, infos \in PlatBatches, dashboard \in BOOLEAN,
          beh \in CallbackBehaviours :
          NoCallInProgress /\ async_update_static_infos(c, infos, dashboard, beh)
    \/ \E c \in CallIds, beh \in CallbackBehaviours : ForwardReturns(c, beh)
    \/ \E c \in CallIds : ForwardRaises(c)

\* ------------------------------------------------------ debounced storage

NoStoreOp ==
    [op |-> "none", snap |-> "None", equalWritten |-> FALSE, scheduled |-> FALSE,
     repeat |-> FALSE, pendingBefore |-> "None", wrote |-> "None", nWritten |-> 0,
     outcome |-> "", infos |-> << >>, services |-> << >>]

InitStore ==
    /\ _storage_contents = "None"
    /\ _pending_storage = "None"
    /\ store_delayed = "None"
    /\ written = << >>
    /\ lastReq = "None"
    /\ lastStore = NoStoreOp

\* Store.async_delay_save(data_func, SAVE_DELAY): the data function replaces
\* the one of a delayed write already scheduled.
async_delay_save(data_func) == store_delayed' = data_func

\* Store.async_save(data): the data is written now and a delayed write still
\* scheduled is dropped.
async_save(data) ==
    /\ written' = Append(written, data)
    /\ store_delayed' = "None"

\* The records the Store can hold when the integration starts. "M" lacks the
\* device_info field; "C" lacks api_version and holds a component type that
\* COMPONENT_TYPE_TO_INFO does not know.
StoredRecords == Snapshots \cup {"M"}

\* The dict behind a stored record.
StoreDataOf(r) ==
    CASE r = "A" -> [device_info |-> <<"n", "m", 0>>, api_version |-> "1.9",
                     services |-> << >>]
      [] r = "B" -> [device_info |-> <<"n", "m", 1>>, api_version |-> "1.9",
                     services |-> <<"svc">>, sensor |-> <<5>>,
                     binary_sensor |-> <<5>>]
      [] r = "C" -> [device_info |-> <<"n", "m", 0>>, services |-> << >>,
                     sensor |-> <<5>>, unknown |-> <<7>>]
      [] r = "M" -> [api_version |-> "1.9", services |-> <<"svc">>,
                     sensor |-> <<5>>]

\* COMPONENT_TYPE_TO_INFO of aioesphomeapi, for the component types stored.
COMPONENT_TYPE_TO_INFO ==
    [sensor |-> "SensorInfo", binary_sensor |-> "BinarySensorInfo"]

\* The EntityInfo objects built from the lists of one component type.
InfosOfComponent(restored, comp_type) ==
    IF comp_type \in DOMAIN restored
    THEN [i \in 1 .. Len(restored[comp_type]) |->
             <<COMPONENT_TYPE_TO_INFO[comp_type], restored[comp_type][i]>>]
    ELSE << >>

\* infos of async_load_from_store: the known component types of the record,
\* the others skipped.
RestoredInfos(restored) ==
    InfosOfComponent(restored, "sensor") \o InfosOfComponent(restored, "binary_sensor")

\* restored.pop("device_info") finds the key.
HasDeviceInfo(restored) == "device_info" \in DOMAIN restored

\* async_load_from_store() when the Store returns `r` (None or a record). It
\* is called when the integration starts, before anything was saved.
async_load_from_store(r) ==
    /\ _storage_contents = "None"
    /\ _pending_storage = "None"
    /\ store_delayed = "None"
    /\ written = << >>
    /\ IF r = "None"
       THEN /\ lastStore' = [NoStoreOp EXCEPT !.op = "load", !.outcome = "returned"]
            /\ UNCHANGED <<_storage_contents, device_info, api_version>>
       ELSE LET restored == StoreDataOf(r)
            IN  /\ _storage_contents' = r
                /\ IF ~HasDeviceInfo(restored)
                   THEN \* restored.pop("device_info") raises KeyError
                        /\ lastStore' = [NoStoreOp EXCEPT !.op = "load", !.snap = r,
                                                          !.outcome = "KeyError"]
                        /\ UNCHANGED <<device_info, api_version>>
                   ELSE /\ device_info' = DeviceInfoFromDict(restored.device_info)
                        /\ api_version' =
                              (IF "api_version" \in DOMAIN restored
                               THEN restored.api_version ELSE DefaultAPIVersion)
                        /\ lastStore' =
                              [NoStoreOp EXCEPT
                                 !.op = "load", !.snap = r, !.outcome = "returned",
                                 !.infos = RestoredInfos(restored),
                                 !.services =
                                    (IF "services" \in DOMAIN restored
                                     THEN restored.services ELSE << >>)]
    /\ UNCHANGED <<_pending_storage, store_delayed, written, lastReq>>
    /\ UNCHANGED <<varsState, varsSubs, varsRemove, varsPlat, varsNotify, varsClimate>>

\* Mutant: every save request is scheduled, whatever was last written.
SnapshotUnchanged_Never(store_data) == FALSE

\* store_data == self._storage_contents
SnapshotUnchanged(store_data) == store_data = _storage_contents

\* async_save_to_store() building the snapshot store_data: nothing happens
\* when it equals the snapshot last written; otherwise its closure becomes
\* the pending one and the data function of the Store's delayed write.
\* Without a device_info the call raises AttributeError on
\* self.device_info.to_dict() and builds no snapshot.
async_save_to_store(store_data) ==
    /\ Len(written) < MaxWrites
    /\ IF ~device_info.present
       THEN /\ lastStore' = [NoStoreOp EXCEPT !.op = "save_failed",
                                              !.outcome = "AttributeError",
                                              !.nWritten = Len(written)]
            /\ UNCHANGED <<_pending_storage, store_delayed, lastReq>>
       ELSE /\ lastReq' = store_data
            /\ IF SnapshotUnchanged(store_data)
               THEN UNCHANGED <<_pending_storage, store_delayed>>
               ELSE /\ _pending_storage' = store_data
                    /\ async_delay_save(store_data)
            /\ lastStore' =
                  [NoStoreOp EXCEPT
                     !.op = "save", !.snap = store_data,
                     !.equalWritten = (store_data = _storage_contents),
                     !.scheduled = ~SnapshotUnchanged(store_data),
                     !.repeat = (lastStore.op = "save" /\ lastStore.snap = store_data),
                     !.pendingBefore = _pending_storage,
                     !.nWritten = Len(written)]
    /\ UNCHANGED <<_storage_contents, written>>
    /\ UNCHANGED <<varsState, varsSubs, varsRemove, varsPlat, varsDevice,
                   varsNotify, varsClimate>>

\* Mutant: the closure records the snapshot and leaves the pending marker.
_memorized_storage_KeepsPending(store_data) ==
    /\ UNCHANGED _pending_storage
    /\ _storage_contents' = store_data

\* The closure _memorized_storage of the snapshot store_data, called.
_memorized_storage(store_data) ==
    /\ _pending_storage' = "None"
    /\ _storage_contents' = store_data

\* The save delay of the Store elapses: it calls its data function and writes
\* what it returns.
DelayedWrite ==
    /\ store_delayed # "None"
    /\ _memorized_storage(store_delayed)
    /\ async_save(store_delayed)
    /\ lastStore' =
          [NoStoreOp EXCEPT !.op = "write", !.pendingBefore = _pending_storage,
                            !.wrote = store_delayed, !.nWritten = Len(written)]
    /\ UNCHANGED lastReq
    /\ UNCHANGED <<varsState, varsSubs, varsRemove, varsPlat, varsDevice,
                   varsNotify, varsClimate>>

\* async_cleanup(): a pending closure is called and what it returns is saved
\* at once, which also drops the Store's delayed write.
async_cleanup ==
    /\ IF _pending_storage # "None"
       THEN /\ _memorized_storage(_pending_storage)
            /\ async_save(_pending_storage)
            /\ lastStore' =
                  [NoStoreOp EXCEPT !.op = "cleanup",
                                    !.pendingBefore = _pending_storage,
                                    !.wrote = _pending_storage,
                                    !.nWritten = Len(written)]
       ELSE /\ UNCHANGED <<_pending_storage, _storage_contents, written, store_delayed>>
            /\ lastStore' =
                  [NoStoreOp EXCEPT !.op = "cleanup", !.nWritten = Len(written)]
    /\ UNCHANGED lastReq
    /\ UNCHANGED <<varsState, varsSubs, varsRemove, varsPlat, varsDevice,
                   varsNotify, varsClimate>>

NextStore ==
    \/ \E r \in StoredRecords \cup {"None"} : async_load_from_store(r)
    \/ \E d \in DeviceInfos : SetDeviceInfo(d)
    \/ \E store_data \in Snapshots : async_save_to_store(store_data)
    \/ DelayedWrite
    \/ async_cleanup

\* ------------------------------------------- Airzone Cloud zone climate

\* homeassistant.components.climate.HVACMode
HVACModes == {"off", "heat", "cool", "heat_cool", "auto", "dry", "fan_only"}

\* aioairzone_cloud.common.OperationMode: the members and their values.
OperationModeValue ==
    [STOP |-> 0, AUTO |-> 1, COOLING |-> 2, HEATING |-> 3, VENTILATION |-> 4,
     DRY |-> 5, EMERGENCY_HEAT |-> 6, HEAT_AIR |-> 7, HEAT_RADIANT |-> 8,
     HEAT_COMBINED |-> 9, COOLING_AIR |-> 10, COOLING_RADIANT |-> 11,
     COOLING_COMBINED |-> 12]

OperationModes == DOMAIN OperationModeValue

HVAC_MODE_HASS_TO_LIB ==
    [off |-> "STOP", cool |-> "COOLING", heat |-> "HEATING",
     fan_only |-> "VENTILATION", dry |-> "DRY", heat_cool |-> "AUTO"]

NoHvac ==
    [op |-> "none", hvac_mode |-> "", mode |-> "", master |-> FALSE,
     sent |-> FALSE, params |-> EmptyDict, raised |-> "none"]

InitClimate ==
    /\ AZD_MODE = "STOP"
    /\ AZD_MASTER = FALSE
    /\ lastHvac = NoHvac

\* The coordinator refreshes the data of the zone from the cloud.
CoordinatorUpdate(mode, master) ==
    /\ <<mode, master>> # <<AZD_MODE, AZD_MASTER>>
    /\ AZD_MODE' = mode
    /\ AZD_MASTER' = master
    /\ lastHvac' = NoHvac
    /\ UNCHANGED <<varsState, varsSubs, varsRemove, varsPlat, varsStore, varsDevice,
                   varsNotify>>

\* params of AirzoneZoneClimate.async_set_hvac_mode for a mode that
\* HVAC_MODE_HASS_TO_LIB knows.
ZoneParams(hvac_mode) ==
    IF hvac_mode = "off"
    THEN DictPut(EmptyDict, "power", FALSE)
    ELSE LET mode == HVAC_MODE_HASS_TO_LIB[hvac_mode]
             withMode == IF mode # AZD_MODE /\ AZD_MASTER
                         THEN DictPut(EmptyDict, "mode", OperationModeValue[mode])
                         ELSE EmptyDict
         IN  DictPut(withMode, "power", TRUE)

\* slave_raise at the end of the method.
SlaveRaise(hvac_mode) ==
    /\ hvac_mode # "off"
    /\ HVAC_MODE_HASS_TO_LIB[hvac_mode] # AZD_MODE
    /\ ~AZD_MASTER

\* AirzoneZoneClimate.async_set_hvac_mode(hvac_mode): a mode that is not OFF
\* and not a key of HVAC_MODE_HASS_TO_LIB raises KeyError before anything is
\* sent; otherwise the params are sent and a slave zone asked for another
\* mode raises HomeAssistantError afterwards.
async_set_hvac_mode(hvac_mode) ==
    /\ IF hvac_mode # "off" /\ hvac_mode \notin DOMAIN HVAC_MODE_HASS_TO_LIB
       THEN lastHvac' =
                [op |-> "set", hvac_mode |-> hvac_mode, mode |-> AZD_MODE,
                 master |-> AZD_MASTER, sent |-> FALSE, params |-> EmptyDict,
                 raised |-> "KeyError"]
       ELSE lastHvac' =
                [op |-> "set", hvac_mode |-> hvac_mode, mode |-> AZD_MODE,
                 master |-> AZD_MASTER, sent |-> TRUE,
                 params |-> ZoneParams(hvac_mode),
                 raised |-> IF SlaveRaise(hvac_mode)
                            THEN "HomeAssistantError" ELSE "none"]
    /\ UNCHANGED <<AZD_MODE, AZD_MASTER>>
    /\ UNCHANGED <<varsState, varsSubs, varsRemove, varsPlat, varsStore, varsDevice,
                   varsNotify>>

NextClimate ==
    \/ \E mode \in OperationModes, master \in BOOLEAN : CoordinatorUpdate(mode, master)
    \/ \E hvac_mode \in HVACModes : async_set_hvac_mode(hvac_mode)

\* ------------------------------------------------------- specifications

Init ==
    InitState /\ InitSubs /\ InitRemove /\ InitPlat /\ InitStore /\ InitDevice
    /\ InitNotify /\ InitClimate

Next ==
    NextState \/ NextSubs \/ NextNotify \/ NextRemove \/ NextPlat \/ NextTopo
    \/ NextMigrate \/ NextNeeded \/ NextStore \/ NextClimate

Spec == Init /\ [][Next]_vars

\* The state store alone.
SpecState == Init /\ [][NextState]_vars

\* The callback registries and their unsubscribe closures.
SpecSubs == Init /\ [][NextSubs]_vars

\* Removal callbacks and async_remove_entities.
SpecRemove == Init /\ [][NextRemove]_vars

\* Concurrent async_update_static_infos calls at the platform lock.
SpecPlat == Init /\ [][NextPlat]_vars

\* Save requests, the Store's delayed write and the flush at unload.
SpecStore == Init /\ [][NextStore]_vars

SpecNotify == Init /\ [][NextNotify]_vars

SpecTopo == Init /\ [][NextTopo]_vars

SpecMigrate == Init /\ [][NextMigrate]_vars

\* Sequential async_update_static_infos calls with the optional platforms.
SpecNeeded == Init /\ [][NextNeeded]_vars

\* The zone climate entity of Airzone Cloud.
SpecClimate == Init /\ [][NextClimate]_vars

\* ------------------------------------------------ claims on the state store

IsUpdate == lastUpdate.op = "update"

LastPair == <<lastUpdate.type, lastUpdate.key>>

\* The value now stored for the (type, key) of the last update, if any.
StoredIsLast ==
    /\ lastUpdate.type \in DOMAIN state
    /\ lastUpdate.key \in DOMAIN state[lastUpdate.type]
    /\ state[lastUpdate.type][lastUpdate.key] = lastUpdate.value

\* C1 as stated: of two consecutive async_update_state calls with the same
\* class, key and value (nothing in between, so no stale mark either), the
\* second stores and dispatches nothing, for every state; so the callback is
\* called once when the first call dispatched.
C1_RepeatAlwaysSuppressed ==
    (IsUpdate /\ lastUpdate.repeat) =>
        /\ lastUpdate.outcome # "applied"
        /\ ~lastUpdate.dispatched

\* C1 amended: the second of two consecutive identical updates stores and
\* dispatches nothing (it is suppressed, or fails like the first) unless the
\* class is CameraState or the key's SensorInfo has force_update, and then it
\* is applied again; without those, the pair calls the callback at most once.
C1_RepeatSuppressedUnlessForced ==
    (IsUpdate /\ lastUpdate.repeat) =>
        IF lastUpdate.type = "CameraState" \/ lastUpdate.forced
        THEN lastUpdate.outcome = "applied" <=> lastUpdate.prevOutcome # "KeyError"
        ELSE /\ lastUpdate.outcome =
                  (IF lastUpdate.prevOutcome = "KeyError" THEN "KeyError" ELSE "suppressed")
             /\ ~lastUpdate.dispatched
             /\ lastUpdate.wasEqual <=> lastUpdate.prevOutcome # "KeyError"

\* C1 witness: a sensor update was applied and dispatched, and its immediate
\* repetition was suppressed.
C1_Witness ==
    /\ IsUpdate /\ lastUpdate.repeat
    /\ lastUpdate.type = "SensorState" /\ lastUpdate.key = 5
    /\ ~lastUpdate.forced
    /\ lastUpdate.prevOutcome = "applied" /\ lastUpdate.prevDispatched
    /\ lastUpdate.outcome = "suppressed"

\* C2 as stated: an update for a stale key is applied and clears the mark, and
\* the identical update right after it is suppressed, for every key.
C2_StaleBypassThenSuppressed ==
    /\ (IsUpdate /\ lastUpdate.wasStale) =>
          /\ lastUpdate.outcome = "applied"
          /\ LastPair \notin stale_state
    /\ (IsUpdate /\ lastUpdate.repeat /\ lastUpdate.prevWasStale) =>
          lastUpdate.outcome = "suppressed"

\* C2 amended: an update for a stale key is applied even when equal to the
\* stored value, clears the mark and calls the subscribed callback if there is
\* one; the identical update right after it is suppressed unless the class is
\* CameraState or the key's SensorInfo has force_update.
C2_StaleBypassOnceUnlessForced ==
    /\ (IsUpdate /\ lastUpdate.wasStale) =>
          /\ lastUpdate.outcome = "applied"
          /\ LastPair \notin stale_state
          /\ StoredIsLast
          /\ lastUpdate.dispatched <=> LastPair \in DOMAIN state_subscriptions
    /\ (IsUpdate /\ lastUpdate.repeat /\ lastUpdate.prevWasStale) =>
          /\ ~lastUpdate.wasStale
          /\ lastUpdate.outcome =
                (IF lastUpdate.type = "CameraState" \/ lastUpdate.forced
                 THEN "applied" ELSE "suppressed")

\* C2 witness: after a disconnect an update equal to the stored value was
\* applied and dispatched, and its repetition was suppressed.
C2_Witness ==
    /\ IsUpdate /\ lastUpdate.repeat
    /\ lastUpdate.prevWasStale /\ lastUpdate.prevWasEqual
    /\ lastUpdate.prevOutcome = "applied" /\ lastUpdate.prevDispatched
    /\ lastUpdate.outcome = "suppressed"

\* C3: when the subscribed callback raises, async_update_state returns
\* normally, the new value is stored and the key is not stale.
C3_CallbackErrorSwallowed ==
    (IsUpdate /\ lastUpdate.cbRaised) =>
        /\ lastUpdate.outcome = "applied"
        /\ StoredIsLast
        /\ LastPair \notin stale_state

\* C3 witness: the callback raised on an update of a stale key holding another
\* value.
C3_Witness ==
    /\ IsUpdate /\ lastUpdate.cbRaised
    /\ lastUpdate.wasStale /\ ~lastUpdate.wasEqual
    /\ lastUpdate.outcome = "applied"

\* C4 as stated: async_update_state never raises to its caller, whether or not
\* the state store holds a dict for the class of the state.
C4_UpdateNeverRaises ==
    IsUpdate => lastUpdate.outcome \in {"applied", "suppressed"}

SuppressionConditions ==
    /\ lastUpdate.wasEqual
    /\ ~lastUpdate.wasStale
    /\ lastUpdate.type # "CameraState"
    /\ ~lastUpdate.forced

\* C16 as stated: an update is suppressed (nothing stored, nothing dispatched)
\* exactly when the stored value equals the incoming one, the key is not
\* stale, the class is not CameraState and force_update is not set; in every
\* other case the stale mark is cleared, the value is stored and the
\* subscribed callback, if there is one, is called.
C16_SuppressedIffAllConditions ==
    IsUpdate =>
        IF SuppressionConditions
        THEN /\ lastUpdate.outcome = "suppressed"
             /\ ~lastUpdate.dispatched
        ELSE /\ lastUpdate.outcome = "applied"
             /\ StoredIsLast
             /\ LastPair \notin stale_state
             /\ lastUpdate.dispatched <=> LastPair \in DOMAIN state_subscriptions

\* -------------------------------------------- claims on the unsubscribe handles

\* C5 as stated: calling an unsubscribe handle again, after its registration
\* is gone, raises nothing, for the handles of all five registries.
C5_UnsubNeverRaises ==
    lastUnsub.op = "unsub" => ~lastUnsub.raised

\* -------------------------------------------- claims on the assist pipeline

\* C15 as stated: every call of async_set_assist_pipeline_state stores the
\* flag and calls all the callbacks subscribed when it is made, whether or
\* not the flag changes.
C15_AllSubscribersNotified ==
    lastNotify.op = "assist" =>
        /\ assist_pipeline_state = lastNotify.value
        /\ lastNotify.invoked = lastNotify.before

\* ---------------------------------------------- claims on the removal fan-out

\* C6 as stated: the async_remove_entities call completes (returns or raises)
\* only after every removal callback of its batch has run to completion.
C6_RemovalWaitsForAll ==
    rm_pc \in {"returned", "raised"} => AllFinished

\* How often callback cb stands in the list registered for a (type, key).
Registrations(d, pair, cb) ==
    IF pair \in DOMAIN d
    THEN Cardinality({i \in 1 .. Len(d[pair]) : d[pair][i] = cb})
    ELSE 0

\* The removal coroutines created for callback cb of a (type, key).
Invocations(tasks, pair, cb) ==
    Cardinality({i \in 1 .. Len(tasks) : tasks[i].key = pair /\ tasks[i].cb = cb})

InBatch(batch, pair) == \E i \in 1 .. Len(batch) : batch[i] = pair

\* C14: a call of async_remove_entities creates one removal coroutine for
\* every registration of a callback under the (type, key) of an entity of the
\* batch and none for other keys; an entity without callbacks adds nothing
\* and raises nothing; with no callback at all the call returns at once.
\* Until the next call the coroutines only advance: none is added, dropped
\* or run again.
C14_RemovalCallbacksOncePerCall ==
    [][ /\ \A batch \in Batches :
              async_remove_entities(batch) =>
                 /\ \A pair \in InfoPairs, cb \in Callbacks :
                        Invocations(rm_tasks', pair, cb) =
                           (IF InBatch(batch, pair)
                            THEN Registrations(entity_info_key_remove_callbacks, pair, cb)
                            ELSE 0)
                 /\ \A i \in 1 .. Len(rm_tasks') : rm_tasks'[i].st = "pending"
                 /\ rm_pc' = (IF rm_tasks' = << >> THEN "returned" ELSE "gathering")
        /\ (~\E batch \in Batches : async_remove_entities(batch)) =>
              /\ Len(rm_tasks') = Len(rm_tasks)
              /\ \A i \in 1 .. Len(rm_tasks) :
                    /\ rm_tasks'[i].key = rm_tasks[i].key
                    /\ rm_tasks'[i].cb = rm_tasks[i].cb
                    /\ ~Finished(rm_tasks[i]) \/ rm_tasks'[i] = rm_tasks[i]
      ]_vars

\* C14 witness: a batch of two entities, the first without a removal
\* callback and the second with two, went through async_remove_entities and
\* both callbacks of the second ran to their end.
C14_Witness ==
    /\ Len(rm_batch) = 2
    /\ Len(rm_tasks) = 2
    /\ \A i \in 1 .. 2 : rm_tasks[i].key = rm_batch[2] /\ rm_tasks[i].st = "done"
    /\ rm_tasks[1].cb # rm_tasks[2].cb
    /\ rm_pc = "returned"

\* ------------------------------------------------ claims on platform loading

Forwarding == {c \in CallIds : calls[c].pc = "forwarding"}

\* C7 as stated: whatever the interleaving of the calls, no platform is
\* forwarded for setup more than once.
C7_ForwardedAtMostOnce ==
    \A p \in Platforms : Count(forwarded, p) <= 1

\* C7 amended: at most one call is inside the forward at a time and it holds
\* the lock; it forwards only platforms not in loaded_platforms; a platform is
\* forwarded again only after a forward that included it raised, and a loaded
\* platform had exactly one forward that returned.
C7_ForwardedOncePerSuccess ==
    /\ Cardinality(Forwarding) <= 1
    /\ \A c \in Forwarding :
          /\ platform_load_lock.holder = c
          /\ calls[c].needed # {}
          /\ calls[c].needed \cap loaded_platforms = {}
    /\ \A p \in Platforms :
          /\ Count(forwarded, p) <= 1 + Count(failedForwards, p)
          /\ p \in loaded_platforms =>
                Count(forwarded, p) = 1 + Count(failedForwards, p)

\* C7 witness: a call that had to wait for the lock found a platform it wants
\* already loaded by the call before it, and no forward has raised.
C7_Witness ==
    /\ \E c \in CallIds :
          calls[c].pc = "done" /\ calls[c].waited /\ calls[c].skipped
    /\ failedForwards = EmptyDict
    /\ \E p \in Platforms : Count(forwarded, p) = 1

\* ---------------------------------------------------- claims on the storage

\* C8 as stated: while a write is pending its payload is the snapshot of the
\* most recent save request, and the delayed write writes that snapshot.
C8_PendingIsLatestRequest ==
    /\ _pending_storage # "None" => _pending_storage = lastReq
    /\ lastStore.op = "write" => lastStore.wrote = lastReq

\* C9: a save request whose snapshot equals the one last written schedules
\* nothing and leaves what is pending alone; any other request leaves exactly
\* its own snapshot scheduled, so the second of two identical requests only
\* replaces the first one's closure; a request writes nothing by itself and
\* the delayed write writes once and leaves nothing scheduled.
C9_IdenticalSnapshotsOneWrite ==
    /\ lastStore.op = "save" =>
          /\ Len(written) = lastStore.nWritten
          /\ IF lastStore.equalWritten
             THEN /\ ~lastStore.scheduled
                  /\ _pending_storage = lastStore.pendingBefore
                  /\ store_delayed = lastStore.pendingBefore
             ELSE /\ lastStore.scheduled
                  /\ _pending_storage = lastStore.snap
                  /\ store_delayed = lastStore.snap
          /\ (lastStore.repeat /\ ~lastStore.equalWritten) =>
                lastStore.pendingBefore = lastStore.snap
    /\ lastStore.op = "write" =>
          /\ Len(written) = lastStore.nWritten + 1
          /\ store_delayed = "None"
          /\ _pending_storage = "None"

\* C9 witness: the same snapshot, different from the one last written, was
\* requested twice in a row and one write of it is scheduled.
C9_Witness ==
    /\ lastStore.op = "save" /\ lastStore.repeat
    /\ lastStore.scheduled
    /\ _storage_contents # "None"
    /\ store_delayed = lastStore.snap

\* C10: async_cleanup with a save pending writes the pending snapshot at once,
\* clears _pending_storage and records the snapshot as last written; with
\* nothing pending it writes nothing.
C10_CleanupFlushesPending ==
    lastStore.op = "cleanup" =>
        IF lastStore.pendingBefore # "None"
        THEN /\ lastStore.wrote = lastStore.pendingBefore
             /\ Len(written) = lastStore.nWritten + 1
             /\ written[Len(written)] = lastStore.pendingBefore
             /\ _pending_storage = "None"
             /\ _storage_contents = lastStore.pendingBefore
             /\ store_delayed = "None"
        ELSE /\ lastStore.wrote = "None"
             /\ Len(written) = lastStore.nWritten

\* C10 witness: a cleanup flushed a pending snapshot after an earlier write of
\* another one.
C10_Witness ==
    /\ lastStore.op = "cleanup"
    /\ lastStore.pendingBefore # "None"
    /\ Len(written) = 2
    /\ written[1] # written[2]

\* C13 as stated: async_load_from_store given a stored record without the
\* device_info field raises nothing and returns no infos and no services, as
\* it does when nothing is stored.
C13_MalformedLoadReturnsEmpty ==
    (lastStore.op = "load" /\ lastStore.snap = "M") =>
        /\ lastStore.outcome = "returned"
        /\ lastStore.infos = << >>
        /\ lastStore.services = << >>

\* C20 as stated: whenever no write is pending after a save request, the
\* snapshot last written (_storage_contents, and the last record written if
\* any) is the snapshot of the most recent save request.
C20_IdleStoreHoldsLatestRequest ==
    (_pending_storage = "None" /\ lastReq # "None") =>
        /\ _storage_contents = lastReq
        /\ written # << >> => written[Len(written)] = lastReq

\* ------------------------------------------- claims on the needed platforms

\* A call that came to ask for its platforms.
AskedToLoad == lastStatic.op = "call" /\ ~lastStatic.raised

\* C18: the platforms async_update_static_infos asks to load are the platforms
\* of the info classes of the batch, BINARY_SENSOR and SELECT when the device
\* info reports a voice assistant version, UPDATE when a dashboard is
\* configured, and nothing else.
C18_RequestedPlatformsExact ==
    AskedToLoad =>
        \A p \in Platforms \cup lastStatic.requested :
            p \in lastStatic.requested <=>
                \/ \E t \in lastStatic.types : INFO_TYPE_TO_PLATFORM[t] = p
                \/ lastStatic.voice /\ p \in {"binary_sensor", "select"}
                \/ lastStatic.dashboard /\ p = "update"

\* C18 witness: a sensor batch on a device with a voice assistant and a
\* dashboard asks for the sensor platform and the three optional ones.
C18_Witness ==
    /\ AskedToLoad
    /\ lastStatic.voice
    /\ lastStatic.dashboard
    /\ lastStatic.types = {"SensorInfo"}
    /\ lastStatic.requested = {"sensor", "binary_sensor", "select", "update"}

\* ------------------------------------------- claims on the topology dispatch

\* The infos of a class in the batch, in batch order.
SublistOfType(infos, t) ==
    LET OfType(info_) == info_.type = t
    IN  SelectSeq(infos, OfType)

\* The callbacks registered for a class when the dispatch began.
ListenersBefore(t) ==
    IF t \in DOMAIN lastStatic.callbacks_before
    THEN lastStatic.callbacks_before[t] ELSE << >>

\* The calls made to the callbacks of a class, in the order they were made.
DeliveredOfType(t) ==
    LET OfType(call_) == call_.type = t
    IN  SelectSeq(lastStatic.delivered, OfType)

\* The callbacks of every class of the batch were called, each registration
\* once and in list order, with the sublist of the class; no callback of
\* another class was called; the signal was sent once with the whole batch.
DispatchedToAll ==
    /\ \A t \in TypesOf(lastStatic.infos) :
           DeliveredOfType(t) =
               [i \in DOMAIN ListenersBefore(t) |->
                   [callback |-> ListenersBefore(t)[i], type |-> t,
                    entity_infos |-> SublistOfType(lastStatic.infos, t)]]
    /\ \A j \in DOMAIN lastStatic.delivered :
           lastStatic.delivered[j].type \in TypesOf(lastStatic.infos)
    /\ lastStatic.aggregate = <<lastStatic.infos>>

\* C17: once the needed platforms are loaded, the callbacks of each class of
\* the batch are called with exactly the sublist of that class in batch order,
\* and exactly one aggregate notification with the whole batch follows them.
C17_PerTypeThenAggregate ==
    lastStatic.dispatched => DispatchedToAll

\* ------------------------------------------- claims on the unique id migration

\* The registry platform of an info.
PlatformOf(info_) == INFO_TYPE_TO_PLATFORM[info_.type]

\* The entity registered under the legacy id of a candidate, 0 for none.
LegacyEntry(reg, d, info_) ==
    async_get_entity_id(reg, PlatformOf(info_), OldUniqueId(d, info_.unique_id))

\* The entries of a platform that have a unique id.
EntriesWith(reg, domain, unique_id) ==
    {e \in reg : e.domain = domain /\ e.unique_id = unique_id}

\* The step is a call of async_update_static_infos with the batch: no other
\* action leaves "call" in lastStatic and changes calls.
StaticInfosCall(infos) ==
    /\ calls' # calls
    /\ lastStatic'.op = "call"
    /\ lastStatic'.infos = infos

\* C11: when async_update_static_infos receives an info whose unique id is in
\* the new format and absent from the registry, and the registry holds an
\* entry under the legacy id (device name, entity type, object id), then
\* after the call that entry has the new-format id and there is no second
\* entry for the entity.
C11_LegacyEntryMigrated ==
    [][\A infos \in MigrationBatches :
          StaticInfosCall(infos) =>
              \A i \in DOMAIN infos :
                  (/\ IsMigrationCandidate(ent_reg, device_info, infos[i])
                   /\ LegacyEntry(ent_reg, device_info, infos[i]) # 0)
                  => /\ async_get_entity_id(ent_reg', PlatformOf(infos[i]),
                                            infos[i].unique_id)
                        = LegacyEntry(ent_reg, device_info, infos[i])
                     /\ Cardinality(EntriesWith(ent_reg', PlatformOf(infos[i]),
                                                infos[i].unique_id)) = 1
                     /\ LegacyEntry(ent_reg', device_info, infos[i]) = 0
                     /\ {e.entity_id : e \in ent_reg'} = {e.entity_id : e \in ent_reg}
                     /\ Cardinality(ent_reg') = Cardinality(ent_reg)]_vars

\* C11 witness: a call has just given the new-format id of the sensor to the
\* entry that was registered under the legacy id, beside another entry.
C11_Witness ==
    /\ lastStatic.op = "call"
    /\ lastStatic.migrated # {}
    /\ Cardinality(ent_reg) = 2
    /\ \E e \in ent_reg :
           /\ e.entity_id \in lastStatic.migrated
           /\ e.domain = "sensor"
           /\ e.unique_id = <<"M", "-", "s", "-", "x">>

\* C19: for a migration candidate with no entity under its legacy id the
\* registry is left as it is and nothing is raised: the unique id goes to the
\* special-case set and the call goes on to load the platforms and dispatch.
C19_SpecialCaseOnlyRecorded ==
    [][\A infos \in MigrationBatches :
          StaticInfosCall(infos) =>
              \A i \in DOMAIN infos :
                  (/\ IsMigrationCandidate(ent_reg, device_info, infos[i])
                   /\ LegacyEntry(ent_reg, device_info, infos[i]) = 0)
                  => /\ infos[i].unique_id \in lastStatic'.special_cases
                     /\ ~lastStatic'.raised
                     /\ calls'[lastStatic'.call].pc \in {"forwarding", "done"}
                     /\ async_get_entity_id(ent_reg', PlatformOf(infos[i]),
                                            infos[i].unique_id) = 0
                     /\ \A e \in ent_reg \ ent_reg' :
                            \E j \in DOMAIN infos :
                                /\ IsMigrationCandidate(ent_reg, device_info, infos[j])
                                /\ LegacyEntry(ent_reg, device_info, infos[j])
                                   = e.entity_id]_vars

\* C19 witness: a call with a candidate has left a non-empty registry as it
\* was, has recorded the candidate as a special case and is loading platforms.
C19_Witness ==
    /\ lastStatic.op = "call"
    /\ lastStatic.special_cases = {<<"M", "-", "s", "-", "x">>}
    /\ lastStatic.migrated = {}
    /\ ent_reg # {}
    /\ calls[lastStatic.call].pc = "forwarding"

\* ------------------------------------------- claims on the frame of an update

\* The value stored for a (type, key), as a list of at most one element.
StoredAt(s, p) ==
    IF p[1] \in DOMAIN s /\ p[2] \in DOMAIN s[p[1]] THEN <<s[p[1]][p[2]]>> ELSE << >>

\* The step is a call of async_update_state: every other action of the store
\* leaves another op in lastUpdate, and the actions elsewhere leave it alone.
UpdateStep == lastUpdate'.op = "update" /\ lastUpdate' # lastUpdate

\* C23: a suppressed async_update_state leaves state, stale_state and
\* state_subscriptions as they were; an applied one changes only the stored
\* value and the stale mark of its own (type, key).
C23_UpdateFrame ==
    [][UpdateStep =>
              /\ lastUpdate'.outcome = "suppressed" =>
                     /\ state' = state
                     /\ stale_state' = stale_state
                     /\ state_subscriptions' = state_subscriptions
              /\ lastUpdate'.outcome = "applied" =>
                     /\ DOMAIN state' = DOMAIN state
                     /\ state_subscriptions' = state_subscriptions
                     /\ \A p \in Pairs \ {<<lastUpdate'.type, lastUpdate'.key>>} :
                            /\ StoredAt(state', p) = StoredAt(state, p)
                            /\ p \in stale_state' <=> p \in stale_state]_vars

\* C23 witness: an update was applied while another (type, key) had a stored
\* value and a stale mark, and both are still there.
C23_Witness ==
    /\ lastUpdate.op = "update"
    /\ lastUpdate.outcome = "applied"
    /\ \E p \in stale_state :
           /\ p # <<lastUpdate.type, lastUpdate.key>>
           /\ StoredAt(state, p) # << >>

\* ------------------------------------- claims on a failed platform activation

\* The forward of call c raises in this step.
ForwardFails(c) == calls[c].pc = "forwarding" /\ calls'[c].pc = "failed"

\* Call c gets the lock in this step, at once or after waiting.
TakesLock(c) ==
    /\ calls[c].pc \in {"new", "waiting"}
    /\ calls'[c].pc \in {"forwarding", "done"}

\* The platforms call c passes to _ensure_platforms_loaded.
RequestedBy(c) ==
    IF calls[c].pc = "waiting" THEN calls[c].platforms ELSE lastStatic'.requested

\* C24: when the platform activation of a call fails, loaded_platforms is left
\* as it was and the lock is released, nothing is dispatched for the batch
\* then or later, and the next call to get the lock that needs one of the
\* platforms forwards it again; loaded_platforms never loses a member.
C24_FailedActivationRetried ==
    [][/\ \A c \in CallIds :
              ForwardFails(c) =>
                  /\ loaded_platforms' = loaded_platforms
                  /\ platform_load_lock'.holder = 0
                  /\ platform_load_lock'.waiters = platform_load_lock.waiters
                  /\ entity_info_callbacks' = entity_info_callbacks
                  /\ ~lastStatic'.dispatched
                  /\ lastStatic'.delivered = << >>
                  /\ lastStatic'.aggregate = << >>
       /\ \A c \in CallIds : calls[c].pc = "failed" => calls'[c] = calls[c]
       /\ \A c \in CallIds, p \in Platforms :
              (/\ TakesLock(c)
               /\ p \in RequestedBy(c)
               /\ p \notin loaded_platforms
               /\ Count(failedForwards, p) > 0)
              => /\ calls'[c].pc = "forwarding"
                 /\ p \in calls'[c].needed
                 /\ Count(forwarded', p) = Count(forwarded, p) + 1
       /\ loaded_platforms \subseteq loaded_platforms']_vars

\* C24 witness: the forward of one call raised, a later call forwarded the
\* same platform again and has loaded it and finished.
C24_Witness ==
    /\ \E c \in CallIds : calls[c].pc = "failed"
    /\ \E c \in CallIds : calls[c].pc = "done"
    /\ platform_load_lock.holder = 0
    /\ \E p \in loaded_platforms :
           /\ Count(failedForwards, p) = 1
           /\ Count(forwarded, p) = 2

\* --------------------------------------------- claims on the order of batches

\* The batch of call c has been dispatched (the last callback may have raised).
Dispatched(c) == calls[c].pc \in {"done", "raised"}

\* Call c has ended, with or without a dispatch; it will not dispatch later.
Ended(c) == calls[c].pc \in {"done", "raised", "failed"}

\* C21: calls are numbered in the order they are made; whenever the batch of
\* a call has been dispatched, every call made before it has already
\* dispatched its own batch or has ended without one, whatever the
\* interleaving at platform_load_lock.
C21_DispatchInSubmissionOrder ==
    \A c, d \in CallIds : (c < d /\ Dispatched(d)) => Ended(c)

\* C21 witness: the second call was made while the first was suspended in the
\* forward, waited for the lock, and both batches have been dispatched, the
\* second one last.
C21_Witness ==
    /\ calls[1].pc = "done"
    /\ calls[2].pc = "done"
    /\ calls[2].waited
    /\ lastStatic.call = 2
    /\ lastStatic.dispatched
    /\ lastStatic.infos # << >>

\* ------------------------------------------- claims on a notification pass

\* How often a callback stands in a list.
OccurrencesIn(l, cb) == Cardinality({i \in 1 .. Len(l) : l[i] = cb})

\* The callback was subscribed when the pass began and none of its
\* subscriptions was taken out during the pass.
StayedSubscribed(cb) ==
    /\ InList(lastNotify.before, cb)
    /\ OccurrencesIn(lastNotify.after, cb) = OccurrencesIn(lastNotify.before, cb)

\* C22: in a notification pass that no callback ends with an exception, every
\* callback that was subscribed when the pass began and was not unsubscribed
\* is called once for each of its subscriptions, also when another callback
\* calls its own unsubscribe handle during the pass.
C22_RemainingCallbacksCalledOnce ==
    (lastNotify.op = "assist" /\ ~lastNotify.raised) =>
        \A cb \in Callbacks :
            StayedSubscribed(cb) =>
                OccurrencesIn(lastNotify.invoked, cb)
                = OccurrencesIn(lastNotify.before, cb)

\* ------------------------------------------- claims on the zone climate

\* The mode asked for is not the one the zone reports; no zone reports a mode
\* for an HVACMode that HVAC_MODE_HASS_TO_LIB does not know.
DiffersFromZoneMode ==
    \/ lastHvac.hvac_mode \notin DOMAIN HVAC_MODE_HASS_TO_LIB
    \/ HVAC_MODE_HASS_TO_LIB[lastHvac.hvac_mode] # lastHvac.mode

\* What the claim says of the call that lastHvac records.
AsClaimedOfZone ==
    /\ lastHvac.hvac_mode = "off" =>
           /\ lastHvac.sent
           /\ lastHvac.params = DictPut(EmptyDict, "power", FALSE)
    /\ (lastHvac.hvac_mode # "off" /\ DiffersFromZoneMode /\ ~lastHvac.master) =>
           /\ lastHvac.sent
           /\ lastHvac.params = DictPut(EmptyDict, "power", TRUE)
           /\ lastHvac.raised = "HomeAssistantError"
    /\ (lastHvac.hvac_mode # "off" /\ DiffersFromZoneMode /\ lastHvac.master) =>
           /\ lastHvac.sent
           /\ DOMAIN lastHvac.params = {"mode", "power"}
           /\ lastHvac.params["power"] = TRUE
           /\ lastHvac.hvac_mode \in DOMAIN HVAC_MODE_HASS_TO_LIB
           /\ lastHvac.params["mode"] =
                  OperationModeValue[HVAC_MODE_HASS_TO_LIB[lastHvac.hvac_mode]]
           /\ lastHvac.raised = "none"

====
